---- MODULE Spec2Model ----
(***************************************************************************)
(* NeoFinance frontend: the AI chat session kept by the useAIChat hook     *)
(* (frontend/src/hooks/useAIChat.js), the components that call it          *)
(* (ChatInterface.jsx, ChatInput.jsx) and the axios client it posts        *)
(* through (frontend/src/services/api.js).                                 *)
(*                                                                         *)
(* An async hook operation is two steps: the synchronous part up to the    *)
(* await of api.post, and the continuation that runs once the promise of   *)
(* api.post has settled.  Between the two the request is in flight and     *)
(* the provider (the environment) settles it, or never does.               *)
(***************************************************************************)
EXTENDS Integers, Sequences, FiniteSets, TLC

\* ------------------------------------------------------------------ bounds
\* Advisory requests dispatched in one run.
MaxRequests == 2
\* Milliseconds the local clock and the server clock advance in one run.
MaxClock == 2
\* Create and update calls the transaction form dispatches in one run.
MaxSaves == 2
\* Transactions the server comes to hold in one run.
MaxLedger == 3
\* fetchTransactions calls of the Transactions page in one run: the one on
\* mount and one after each save.
MaxFetches == MaxSaves + 1
\* login and register calls in one run.
MaxLogins == 1
\* The most periods a trends request asks for.
MaxLimit == 3
\* The largest maxChars a context is built for.
MaxChars == 16

\* ------------------------------------------------------------------ inputs
\* What a caller passes as question: sequences of characters, some blank.
QuestionInputs == { <<>>, <<" ">>, <<" ", "a">> }
\* What a caller passes as periodDays.
PeriodInputs == {7, 30}
\* The text of a provider reply (response.data.response).
Replies == {"reply"}
\* How the provider call settles when it settles.
Outcomes == {"ok", "okNoBody", "httpError", "networkError"}
\* The lists GET /ai-chat/quick-questions may answer with; one holds an entry
\* with a leading space.
QuickCatalogs == { <<>>, << <<"b">> >>, << <<" ", "a">>, <<"b">> >> }
\* How that call may end.
FetchOutcomes == {"ok", "failed"}

\* ------------------------------------------------------------------- state
VARIABLES
  mounted,    \* the ChatInterface component (and its hook instance) is mounted
  messages,   \* useState([]) of the hook: the history
  isLoading,  \* useState(false) of the hook
  requests,   \* every api.post issued by the hook, in order of dispatch
  appendLog,  \* per request, the setMessages appends the hook has called
  now,        \* Date.now() of the browser, in milliseconds
  serverNow,  \* the clock the provider stamps its responses with
  quickQuestions,  \* useState([]) of the hook: the suggested questions
  quickFetch,      \* the fetchQuickQuestions call of the mounted instance
  formData,            \* TransactionForm: the fields of the form
  formLoading,         \* TransactionForm: loading
  formError,           \* TransactionForm: error
  editingTransaction,  \* Transactions page: the transaction being edited
  save,                \* the create or update call the form is awaiting
  saveCount,           \* create and update calls dispatched so far
  successTimers,       \* setTimeout(onSuccess, 1000) timers still to fire
  transactions,  \* Transactions page: the list handed to TransactionList
  listLoading,   \* Transactions page: loading
  listError,     \* Transactions page: error
  fetches,       \* every fetchTransactions call of the page, in order of issue
  deleting,      \* TransactionList: a delete call is awaited
  storageToken,   \* localStorage: the item 'token' (0: no item)
  storageUser,    \* localStorage: an item 'user' is present
  token,          \* AuthProvider: token (0: null)
  user,           \* AuthProvider: a user is loaded (user is not null)
  authLoading,    \* AuthProvider: loading
  effectPending,  \* AuthProvider: the loadUser effect is due to run
  authCalls,      \* the calls of the api client since the page was loaded
  logins,         \* login and register calls made so far
  location,       \* the path of the router
  unloading,      \* window.location.href was assigned: the page is leaving
  trendsInput,    \* what a trends request is computed from
  trendsData,     \* the series the caller of getTrends has received
  contextInput,   \* what the context of an advisory request is built from
  contextBundle,  \* the context last built
  ledger,       \* the transactions the server holds
  summary,      \* Home: the summary state handed to Dashboard
  homeLoading,  \* Home: loading
  homeError,    \* Home: error
  donutData     \* the data Dashboard last handed to ExpenseDonutChart

chatVars == <<mounted, messages, isLoading, requests, appendLog>>

clockVars == <<now, serverNow>>

quickVars == <<quickQuestions, quickFetch>>

formVars ==
  <<formData, formLoading, formError, editingTransaction, save, saveCount,
    successTimers>>

dashVars == <<ledger, summary, homeLoading, homeError, donutData>>

listVars == <<transactions, listLoading, listError, fetches, deleting>>

authVars ==
  <<storageToken, storageUser, token, user, authLoading, effectPending,
    authCalls, logins, location, unloading>>

serverVars == <<trendsInput, trendsData, contextInput, contextBundle>>

\* What mounting and unmounting the chat leave alone.
sessionEnv == <<clockVars, formVars, dashVars, listVars, authVars, serverVars>>

\* What the operations of the chat session leave alone.
chatEnv == <<quickVars, sessionEnv>>

\* What a step of a clock leaves alone.
clockEnv == <<chatVars, quickVars, formVars, dashVars, listVars, authVars, serverVars>>

\* What the Transactions page and its form leave alone.
pageEnv == <<chatVars, quickVars, clockVars, dashVars, authVars, serverVars>>

\* What the transaction form leaves alone.
formEnv == <<pageEnv, listVars>>

\* What the list of the Transactions page leaves alone.
listEnv == <<pageEnv, formVars>>

\* What the dashboard page leaves alone.
dashEnv == <<chatVars, quickVars, clockVars, formVars, listVars, authVars, serverVars>>

\* What the aggregation engine and the context builder leave alone.
serverEnv ==
  <<chatVars, quickVars, clockVars, formVars, dashVars, listVars, authVars>>

\* What the authentication provider, the api client and the router leave
\* alone.
authEnv == <<chatVars, quickVars, clockVars, formVars, dashVars, listVars, serverVars>>

vars == <<chatVars, chatEnv>>

\* ----------------------------------------------------------------- strings
IsSpace(c) == c = " "

RECURSIVE TrimStart(_)
TrimStart(s) ==
  IF s # <<>> /\ IsSpace(Head(s)) THEN TrimStart(Tail(s)) ELSE s

RECURSIVE TrimEnd(_)
TrimEnd(s) ==
  IF s # <<>> /\ IsSpace(s[Len(s)]) THEN TrimEnd(SubSeq(s, 1, Len(s) - 1)) ELSE s

\* String.prototype.trim
Trim(s) == TrimEnd(TrimStart(s))

\* The characters of s as one string value.
RECURSIVE Str(_)
Str(s) == IF s = <<>> THEN "" ELSE Head(s) \o Str(Tail(s))

\* --------------------------------------------------------------- messages
UserMessage(r, text) ==
  [req |-> r, id |-> ToString(now), isUser |-> TRUE, text |-> text,
   timestamp |-> now, isError |-> FALSE]

AiMessage(r, data) ==
  [req |-> r, id |-> ToString(now + 1), isUser |-> FALSE, text |-> data.response,
   timestamp |-> data.timestamp, isError |-> FALSE]

SendErrorText == "Sorry, I encountered an error. Please try again."

AnalyzeErrorText == "Sorry, I could not analyze your budget. Please try again."

SendErrorMessage(r) ==
  [req |-> r, id |-> ToString(now + 1), isUser |-> FALSE, text |-> SendErrorText,
   timestamp |-> now, isError |-> TRUE]

\* Faulty variant: the error message of analyzeBudget without its isError flag.
AnalyzeErrorMessage_NoFlag(r) ==
  [req |-> r, id |-> ToString(now + 1), isUser |-> FALSE, text |-> AnalyzeErrorText,
   timestamp |-> now, isError |-> FALSE]

AnalyzeErrorMessage(r) ==
  [req |-> r, id |-> ToString(now + 1), isUser |-> FALSE, text |-> AnalyzeErrorText,
   timestamp |-> now, isError |-> TRUE]

\* Faulty variant: the text names the button's period whatever was asked for.
AnalysisText_FixedPeriod(periodDays) == "Analyze my budget for the last 30 days"

AnalysisText(periodDays) ==
  "Analyze my budget for the last " \o ToString(periodDays) \o " days"

\* --------------------------------------------------------------- requests
\* response.data of a response without a body.
NoData == [response |-> "", none |-> TRUE]

\* api.post(url, body): one provider call, in flight until the provider settles it.
NewRequest(op, url, body) ==
  [op |-> op, live |-> TRUE, url |-> url, body |-> body,
   calls |-> 1, net |-> "inflight", data |-> NoData,
   phase |-> "awaiting", completion |-> "none"]

ChatInit ==
  /\ mounted = TRUE
  /\ messages = <<>>
  /\ isLoading = FALSE
  /\ requests = <<>>
  /\ appendLog = [r \in 1..MaxRequests |-> [user |-> 0, assistant |-> 0]]

ClockInit ==
  /\ now = 0
  /\ serverNow = 0

\* The effect of ChatInterface has called fetchQuickQuestions on mount.
QuickInit ==
  /\ quickQuestions = <<>>
  /\ quickFetch = "inflight"

\* ------------------------------------------------- the transaction form
CATEGORIES ==
  { "Food & Dining", "Shopping", "Transportation", "Bills & Utilities",
    "Entertainment", "Healthcare", "Education", "Personal Care", "Travel",
    "Income", "Other" }

\* The items of the type RadioGroup.
TypeItems == {"expense", "income"}

\* The items of the category Select the runs pick from.
CategoryChoices == {"Food & Dining", "Income"}

\* What the amount input, an input of type number, can hold as its value.
AmountInputs == {"", "0", "-5", "12.5"}

\* What the description input can hold, as sequences of characters.
DescriptionInputs == { <<>>, <<" ">>, <<"r">> }

\* How a create or update call may end.
SaveOutcomes == {"ok", "failed"}

NoTransaction == [id |-> 0]

NoSave == [kind |-> "none"]

\* The transactions the list of the page offers for editing.  Amounts are in
\* cents; the type is held to the two types by the check constraint of the
\* table, the category to CATEGORIES by the data model.
ListedTransactions ==
  { [id |-> 1, amount |-> -500, description |-> <<"r">>, type |-> "expense",
     category |-> "Travel"],
    [id |-> 2, amount |-> 1250, description |-> <<"r">>, type |-> "income",
     category |-> "Income"] }

\* parseFloat on the values the amount field takes, in cents.
ParseFloat(s) ==
  CASE s = "" -> [nan |-> TRUE, cents |-> 0]
    [] s = "0" -> [nan |-> FALSE, cents |-> 0]
    [] s = "-5" -> [nan |-> FALSE, cents |-> -500]
    [] s = "5" -> [nan |-> FALSE, cents |-> 500]
    [] s = "12.5" -> [nan |-> FALSE, cents |-> 1250]

\* Math.abs(amount).toString() on the amounts of the listed transactions.
AbsToString(cents) ==
  CASE cents \in {500, -500} -> "5"
    [] cents \in {1250, -1250} -> "12.5"

\* x <= 0 in JavaScript: false for NaN.
LessOrEqualZero(x) == ~x.nan /\ x.cents <= 0

\* !s for a string s.
Falsy(s) == s = ""

FormDefaults ==
  [amount |-> "", description |-> <<>>, type |-> "expense", category |-> "Other"]

FormInit ==
  /\ formData = FormDefaults
  /\ formLoading = FALSE
  /\ formError = ""
  /\ editingTransaction = NoTransaction
  /\ save = NoSave
  /\ saveCount = 0
  /\ successTimers = <<>>

\* ------------------------------------------------ the Transactions page
\* What the server may answer to a list request: the listed transactions,
\* newest first, as some moment of the table has them.
ListResponses ==
  { <<>>,
    << [id |-> 1, amount |-> -500, description |-> <<"r">>, type |-> "expense",
        category |-> "Travel"] >>,
    << [id |-> 2, amount |-> 1250, description |-> <<"r">>, type |-> "income",
        category |-> "Income"],
       [id |-> 1, amount |-> -500, description |-> <<"r">>, type |-> "expense",
        category |-> "Travel"] >> }

\* The response that lists every transaction.
FullList == CHOOSE l \in ListResponses : Len(l) = 2

\* How a list request may end.
ListOutcomes == {"ok", "failed"}

ListError == "Failed to load transactions. Please try again."

\* A transactionsAPI.getAll call on its way.
NewFetch == [net |-> "inflight", data |-> <<>>, phase |-> "awaiting"]

\* The page has called fetchTransactions on mount.
ListInit ==
  /\ transactions = <<>>
  /\ listLoading = TRUE
  /\ listError = ""
  /\ fetches = << NewFetch >>
  /\ deleting = FALSE

\* ------------------------------------------------------- authentication
NoToken == 0

\* The token a browser may hold from an earlier session.
StoredToken == 1

\* The routes of AppRouter.
ProtectedPaths == {"/", "/transactions"}

AuthPaths == {"/login", "/register"}

\* The statuses a response may carry; "none" is a failure without a response.
Statuses == {"200", "401", "500", "none"}

\* The app is loaded: AuthProvider is constructed from localStorage, its
\* effect is due, no call has been made.
AuthLoaded ==
  /\ token = storageToken
  /\ user = FALSE
  /\ authLoading = TRUE
  /\ effectPending = "mount"
  /\ authCalls = <<>>
  /\ unloading = FALSE

\* The app is opened at any route, with or without items in localStorage.
AuthInit ==
  /\ storageToken \in {NoToken, StoredToken}
  /\ storageUser \in BOOLEAN
  /\ location \in ProtectedPaths \cup AuthPaths
  /\ logins = 0
  /\ AuthLoaded

\* A signed-in user on the dashboard, the initial user load over.
SignedIn ==
  /\ storageToken = StoredToken
  /\ storageUser = FALSE
  /\ token = StoredToken
  /\ user = TRUE
  /\ authLoading = FALSE
  /\ effectPending = "none"
  /\ authCalls = <<>>
  /\ logins = 0
  /\ location = "/"
  /\ unloading = FALSE

\* ------------------------------------------------------------ the server
NoInput == [none |-> TRUE]

NoTrends == << [none |-> TRUE] >>

NoBundle == [none |-> TRUE]

\* No trends request and no advisory request has been made.
ServerInit ==
  /\ trendsInput = NoInput
  /\ trendsData = NoTrends
  /\ contextInput = NoInput
  /\ contextBundle = NoBundle

\* ------------------------------------------------------ the dashboard page
NoSummary == [none |-> TRUE]

\* Home has called fetchDashboardSummary on mount; nothing is rendered yet.
DashInit ==
  /\ ledger = <<>>
  /\ summary = NoSummary
  /\ homeLoading = TRUE
  /\ homeError = ""
  /\ donutData = {}

Init ==
  /\ ChatInit
  /\ ClockInit
  /\ QuickInit
  /\ FormInit
  /\ ListInit
  /\ DashInit
  /\ SignedIn
  /\ ServerInit

\* ------------------------------------------------------ hook operations
\* Request r was issued by the hook instance that is mounted now.
Live(r) == mounted /\ requests[r].live

\* setMessages((prev) => [...prev, m]) called by an operation whose hook
\* instance is mounted (live) or not.  A state update of an unmounted hook
\* instance is dropped by React.
AppendMessage(live, m) ==
  /\ messages' = IF live THEN Append(messages, m) ELSE messages
  /\ appendLog' = IF m.isUser
                    THEN [appendLog EXCEPT ![m.req].user = @ + 1]
                    ELSE [appendLog EXCEPT ![m.req].assistant = @ + 1]

\* setIsLoading(v), likewise.
SetIsLoading(live, v) ==
  isLoading' = IF live THEN v ELSE isLoading

\* The try block ran to its end: the awaited call fulfilled and reading
\* response.data.response did not throw.
TrySucceeds(req) == req.net = "ok" /\ req.data # NoData

\* Faulty variant: no catch block: a rejection of api.post leaves the operation.
Completion_NoCatch(net) ==
  CASE net = "ok" -> "fulfilled"
    [] OTHER      -> "rejected"

\* How the promise of the async operation settles for a settled provider call:
\* the catch block handles every rejection of the awaited api.post and every
\* exception of the try block, and neither catch nor finally throws.
Completion(net) ==
  CASE net = "ok" -> "fulfilled"
    [] OTHER      -> "fulfilled"

\* Faulty variant: the question is not looked at before it is sent.
SendMessage_NoBlankCheck(question, includeContext) ==
  /\ mounted
  /\ LET r == Len(requests) + 1 IN
       /\ r \in DOMAIN appendLog
       /\ AppendMessage(TRUE, UserMessage(r, Str(question)))
       /\ SetIsLoading(TRUE, TRUE)
       /\ requests' = Append(requests,
            NewRequest("sendMessage", "/ai-chat/message",
              [question |-> Str(question), include_context |-> includeContext]))
       /\ UNCHANGED <<mounted, chatEnv>>

\* sendMessage(question, includeContext), up to the await.
SendMessage(question, includeContext) ==
  /\ mounted
  /\ IF Trim(question) = <<>>
       THEN UNCHANGED vars
       ELSE LET r == Len(requests) + 1 IN
            /\ r \in DOMAIN appendLog
            /\ AppendMessage(TRUE, UserMessage(r, Str(question)))
            /\ SetIsLoading(TRUE, TRUE)
            /\ requests' = Append(requests,
                 NewRequest("sendMessage", "/ai-chat/message",
                   [question |-> Str(question), include_context |-> includeContext]))
            /\ UNCHANGED <<mounted, chatEnv>>

\* Faulty variant: the catch block only logs: no error message is appended.
SendMessageResume_SilentCatch(r) ==
  /\ r \in DOMAIN requests
  /\ requests[r].op = "sendMessage"
  /\ requests[r].phase = "awaiting"
  /\ requests[r].net # "inflight"
  /\ IF TrySucceeds(requests[r])
       THEN AppendMessage(Live(r), AiMessage(r, requests[r].data))
       ELSE UNCHANGED <<messages, appendLog>>
  /\ SetIsLoading(Live(r), FALSE)
  /\ requests' = [requests EXCEPT
       ![r].phase = "returned",
       ![r].completion = Completion(requests[r].net)]
  /\ UNCHANGED <<mounted, chatEnv>>

\* sendMessage after the await: the try block on success, the catch block on
\* failure, then finally.
SendMessageResume(r) ==
  /\ r \in DOMAIN requests
  /\ requests[r].op = "sendMessage"
  /\ requests[r].phase = "awaiting"
  /\ requests[r].net # "inflight"
  /\ AppendMessage(Live(r), IF TrySucceeds(requests[r])
                              THEN AiMessage(r, requests[r].data)
                              ELSE SendErrorMessage(r))
  /\ SetIsLoading(Live(r), FALSE)
  /\ requests' = [requests EXCEPT
       ![r].phase = "returned",
       ![r].completion = Completion(requests[r].net)]
  /\ UNCHANGED <<mounted, chatEnv>>

\* analyzeBudget(periodDays), up to the await.
AnalyzeBudget(periodDays) ==
  LET r == Len(requests) + 1 IN
  /\ mounted
  /\ r \in DOMAIN appendLog
  /\ AppendMessage(TRUE, UserMessage(r, AnalysisText(periodDays)))
  /\ SetIsLoading(TRUE, TRUE)
  /\ requests' = Append(requests,
       NewRequest("analyzeBudget", "/ai-chat/analyze-budget",
         [period_days |-> periodDays]))
  /\ UNCHANGED <<mounted, chatEnv>>

\* analyzeBudget after the await.
AnalyzeBudgetResume(r) ==
  /\ r \in DOMAIN requests
  /\ requests[r].op = "analyzeBudget"
  /\ requests[r].phase = "awaiting"
  /\ requests[r].net # "inflight"
  /\ AppendMessage(Live(r), IF TrySucceeds(requests[r])
                              THEN AiMessage(r, requests[r].data)
                              ELSE AnalyzeErrorMessage(r))
  /\ SetIsLoading(Live(r), FALSE)
  /\ requests' = [requests EXCEPT
       ![r].phase = "returned",
       ![r].completion = Completion(requests[r].net)]
  /\ UNCHANGED <<mounted, chatEnv>>

\* clearMessages()
ClearMessages ==
  /\ mounted
  /\ messages' = <<>>
  /\ UNCHANGED <<mounted, isLoading, requests, appendLog, chatEnv>>

\* ------------------------------------------------------------ the provider
\* The provider settles the call of request r: a reply, a 2xx response
\* without a body, an error response, or a transport error.  The axios instance sets no timeout, so nothing else
\* settles a call in flight.
ProviderSettle(r, outcome, reply) ==
  /\ r \in DOMAIN requests
  /\ requests[r].net = "inflight"
  /\ requests' = [requests EXCEPT
       ![r].net = IF outcome \in {"ok", "okNoBody"} THEN "ok" ELSE "failed",
       ![r].data = IF outcome = "ok"
                     THEN [response |-> reply, none |-> FALSE,
                           timestamp |-> serverNow]
                     ELSE NoData]
  /\ UNCHANGED <<mounted, messages, isLoading, appendLog, chatEnv>>

\* --------------------------------------------------------- the components
\* ChatInput.handleSubmit with inputValue typed into the field.
ChatInputSubmit(inputValue) ==
  /\ Trim(inputValue) # <<>>
  /\ ~isLoading
  /\ SendMessage(Trim(inputValue), TRUE)

\* The Analyze Budget button of ChatInterface.
AnalyzeBudgetClick ==
  /\ ~isLoading
  /\ AnalyzeBudget(30)

\* The clear button of ChatInterface.
ClearClick ==
  /\ Len(messages) > 0
  /\ ~isLoading
  /\ ClearMessages

\* Dashboard stops rendering ChatInterface (the user navigates away): the hook
\* instance and its state are discarded.  The hook registers no cleanup, so
\* the calls it has in flight stay in flight.
Unmount ==
  /\ mounted
  /\ mounted' = FALSE
  /\ messages' = <<>>
  /\ isLoading' = FALSE
  /\ requests' = [r \in DOMAIN requests |-> [requests[r] EXCEPT !.live = FALSE]]
  /\ quickQuestions' = <<>>
  /\ quickFetch' = "dropped"
  /\ UNCHANGED <<appendLog, sessionEnv>>

\* Dashboard renders ChatInterface again: a fresh hook instance, with the
\* initial values of useState.
Mount ==
  /\ ~mounted
  /\ mounted' = TRUE
  /\ messages' = <<>>
  /\ isLoading' = FALSE
  /\ quickQuestions' = <<>>
  /\ quickFetch' = "inflight"
  /\ UNCHANGED <<requests, appendLog, sessionEnv>>

\* ------------------------------------------------------- quick questions
\* fetchQuickQuestions after its await: the list of the response becomes the
\* state, a failure is logged and changes nothing.
FetchQuickQuestionsResume(outcome, questions) ==
  /\ mounted
  /\ quickFetch = "inflight"
  /\ quickFetch' = "settled"
  /\ quickQuestions' = IF outcome = "ok" THEN questions ELSE quickQuestions
  /\ UNCHANGED <<chatVars, sessionEnv>>

\* Faulty variant: the chips stay on screen whatever the history holds.
QuickQuestionsShown_Always ==
  /\ mounted
  /\ Len(quickQuestions) # 0

\* ChatInterface renders QuickQuestions, and QuickQuestions renders its chips.
QuickQuestionsShown ==
  /\ mounted
  /\ Len(messages) = 0
  /\ Len(quickQuestions) # 0

\* Faulty variant: the chip asks without the financial context.
QuickSelect_NoContext(question) ==
  /\ QuickQuestionsShown
  /\ \E i \in DOMAIN quickQuestions : quickQuestions[i] = question
  /\ ~isLoading
  /\ SendMessage(question, FALSE)

\* A click on the chip of one question.
QuickSelect(question) ==
  /\ QuickQuestionsShown
  /\ \E i \in DOMAIN quickQuestions : quickQuestions[i] = question
  /\ ~isLoading
  /\ SendMessage(question, TRUE)

\* ---------------------------------------------------------------- clocks
\* A millisecond passes on the browser's clock.
Tick ==
  /\ now < MaxClock
  /\ now' = now + 1
  /\ UNCHANGED <<clockEnv, serverNow>>

\* A millisecond passes on the provider's clock, which nothing synchronises
\* with the browser's.
ServerTick ==
  /\ serverNow < MaxClock
  /\ serverNow' = serverNow + 1
  /\ UNCHANGED <<clockEnv, now>>

Next ==
  \/ \E q \in QuestionInputs, c \in BOOLEAN : SendMessage(q, c)
  \/ \E r \in 1..MaxRequests : SendMessageResume(r)
  \/ \E p \in PeriodInputs : AnalyzeBudget(p)
  \/ \E r \in 1..MaxRequests : AnalyzeBudgetResume(r)
  \/ ClearMessages
  \/ \E r \in 1..MaxRequests, o \in Outcomes, t \in Replies : ProviderSettle(r, o, t)
  \/ \E v \in QuestionInputs : ChatInputSubmit(v)
  \/ AnalyzeBudgetClick
  \/ ClearClick
  \/ Unmount
  \/ Mount

\* The chat session under any caller of the hook.  The hook writes ids and
\* timestamps and never reads them, and its operations do not read the list
\* of quick questions: here the clocks stand still and the list has not
\* arrived.  ClockSpec and QuickSpec below add the two.
Spec == Init /\ [][Next]_vars

\* --------------------------------------- the transaction form: handlers
AmountError == "Please enter a valid amount greater than 0"

DescriptionError == "Please enter a description"

SaveError == "Failed to save transaction. Please try again."

\* handleChange for the field called name; it also clears the error.
HandleChange(name, value) ==
  /\ ~formLoading
  /\ formData' = [formData EXCEPT ![name] = value]
  /\ formError' = ""
  /\ UNCHANGED <<formLoading, editingTransaction, save, saveCount, successTimers>>
  /\ UNCHANGED formEnv

HandleTypeChange(value) ==
  /\ ~formLoading
  /\ formData' = [formData EXCEPT !.type = value]
  /\ formError' = ""
  /\ UNCHANGED <<formLoading, editingTransaction, save, saveCount, successTimers>>
  /\ UNCHANGED formEnv

\* Faulty variant: the category is taken as free text.
HandleCategoryChange_FreeText(value) ==
  /\ ~formLoading
  /\ formData' = [formData EXCEPT !.category = "Groceries"]
  /\ formError' = ""
  /\ UNCHANGED <<formLoading, editingTransaction, save, saveCount, successTimers>>
  /\ UNCHANGED formEnv

HandleCategoryChange(value) ==
  /\ ~formLoading
  /\ formData' = [formData EXCEPT !.category = value]
  /\ formError' = ""
  /\ UNCHANGED <<formLoading, editingTransaction, save, saveCount, successTimers>>
  /\ UNCHANGED formEnv

\* The object handleSubmit sends.
TransactionData ==
  [amount |-> ParseFloat(formData.amount), description |-> formData.description,
   type |-> formData.type, category |-> formData.category]

\* The call handleSubmit awaits: an update when a transaction is being
\* edited, a create otherwise.
NewSave ==
  [kind |-> IF editingTransaction # NoTransaction THEN "update" ELSE "create",
   id |-> editingTransaction.id, data |-> TransactionData, net |-> "inflight"]

\* Faulty variant: the description is not validated.
HandleSubmit_NoDescriptionCheck ==
  /\ ~formLoading
  /\ IF Falsy(formData.amount) \/ LessOrEqualZero(ParseFloat(formData.amount))
       THEN /\ formError' = AmountError
            /\ UNCHANGED <<formLoading, save, saveCount>>
       ELSE /\ saveCount < MaxSaves
            /\ formError' = ""
            /\ formLoading' = TRUE
            /\ save' = NewSave
            /\ saveCount' = saveCount + 1
  /\ UNCHANGED <<formData, editingTransaction, successTimers, formEnv>>

\* handleSubmit up to its await.  The submit button and the fields are
\* disabled while loading.
HandleSubmit ==
  /\ ~formLoading
  /\ IF Falsy(formData.amount) \/ LessOrEqualZero(ParseFloat(formData.amount))
       THEN /\ formError' = AmountError
            /\ UNCHANGED <<formLoading, save, saveCount>>
       ELSE IF Trim(formData.description) = <<>>
       THEN /\ formError' = DescriptionError
            /\ UNCHANGED <<formLoading, save, saveCount>>
       ELSE /\ saveCount < MaxSaves
            /\ formError' = ""
            /\ formLoading' = TRUE
            /\ save' = NewSave
            /\ saveCount' = saveCount + 1
  /\ UNCHANGED <<formData, editingTransaction, successTimers, formEnv>>

\* The server answers the create or update call.
SaveSettle(outcome) ==
  /\ save # NoSave
  /\ save.net = "inflight"
  /\ save' = [save EXCEPT !.net = outcome]
  /\ UNCHANGED <<formData, formLoading, formError, editingTransaction, saveCount,
                 successTimers, formEnv>>

\* handleSubmit after its await: on success a create resets the form and the
\* onSuccess timer is started; on failure the error is shown; finally loading
\* ends.
HandleSubmitResume ==
  /\ save # NoSave
  /\ save.net # "inflight"
  /\ IF save.net = "ok"
       THEN /\ formData' = IF save.kind = "create" THEN FormDefaults ELSE formData
            /\ successTimers' = Append(successTimers, save.id)
            /\ UNCHANGED formError
       ELSE /\ formError' = SaveError
            /\ UNCHANGED <<formData, successTimers>>
  /\ formLoading' = FALSE
  /\ save' = NoSave
  /\ UNCHANGED <<editingTransaction, saveCount, formEnv>>

\* fetchTransactions of the page up to its await.
FetchTransactions ==
  /\ Len(fetches) < MaxFetches
  /\ listLoading' = TRUE
  /\ listError' = ""
  /\ fetches' = Append(fetches, NewFetch)
  /\ UNCHANGED transactions

\* The server answers a list request.
FetchSettle(f, outcome, data) ==
  /\ f \in DOMAIN fetches
  /\ fetches[f].net = "inflight"
  /\ fetches' = [fetches EXCEPT ![f].net = outcome,
                                ![f].data = IF outcome = "ok" THEN data ELSE <<>>]
  /\ UNCHANGED <<transactions, listLoading, listError, deleting, listEnv>>

\* fetchTransactions after its await: the response replaces the list, a
\* failure sets the error; finally loading ends.
FetchTransactionsResume(f) ==
  /\ f \in DOMAIN fetches
  /\ fetches[f].phase = "awaiting"
  /\ fetches[f].net # "inflight"
  /\ IF fetches[f].net = "ok"
       THEN /\ transactions' = fetches[f].data
            /\ UNCHANGED listError
       ELSE /\ listError' = ListError
            /\ UNCHANGED transactions
  /\ listLoading' = FALSE
  /\ fetches' = [fetches EXCEPT ![f].phase = "returned"]
  /\ UNCHANGED <<deleting, listEnv>>

\* The page renders TransactionList when it is neither loading nor in error.
ListShown == ~listLoading /\ listError = ""

\* The rows TransactionList offers.
Rows == IF ListShown THEN { transactions[i] : i \in DOMAIN transactions } ELSE {}

\* The Try Again button, rendered with the error of the list.
TryAgainClick ==
  /\ listError # ""
  /\ ~listLoading
  /\ FetchTransactions
  /\ UNCHANGED <<deleting, listEnv>>

\* handleDeleteConfirm of the list up to its await, for a row on offer.
HandleDeleteConfirm ==
  /\ Rows # {}
  /\ ~deleting
  /\ deleting' = TRUE
  /\ UNCHANGED <<transactions, listLoading, listError, fetches, listEnv>>

\* handleDeleteConfirm after its await: on success handleDelete of the page
\* refreshes the list.
HandleDeleteConfirmResume(outcome) ==
  /\ deleting
  /\ deleting' = FALSE
  /\ IF outcome = "ok"
       THEN FetchTransactions
       ELSE UNCHANGED <<transactions, listLoading, listError, fetches>>
  /\ UNCHANGED listEnv

\* The timer fires: handleFormSuccess of the page refreshes the list and
\* ends the editing mode.
OnSuccess ==
  /\ successTimers # <<>>
  /\ successTimers' = Tail(successTimers)
  /\ FetchTransactions
  /\ editingTransaction' = NoTransaction
  /\ UNCHANGED <<formData, formLoading, formError, save, saveCount, deleting,
                 pageEnv>>

\* The edit button of a row on offer: handleEdit of the page, then the
\* effect of the form that copies the transaction into the fields.
HandleEdit(transaction) ==
  /\ transaction \in Rows
  /\ editingTransaction # transaction
  /\ editingTransaction' = transaction
  /\ formData' = [amount |-> AbsToString(transaction.amount),
                  description |-> transaction.description,
                  type |-> transaction.type,
                  category |-> transaction.category]
  /\ UNCHANGED <<formLoading, formError, save, saveCount, successTimers, formEnv>>

\* The cancel button, rendered while a transaction is being edited.
HandleCancel ==
  /\ editingTransaction # NoTransaction
  /\ ~formLoading
  /\ formData' = FormDefaults
  /\ formError' = ""
  /\ editingTransaction' = NoTransaction
  /\ UNCHANGED <<formLoading, save, saveCount, successTimers, formEnv>>

FormNext ==
  \/ \E v \in AmountInputs : HandleChange("amount", v)
  \/ \E v \in DescriptionInputs : HandleChange("description", v)
  \/ \E v \in TypeItems : HandleTypeChange(v)
  \/ \E v \in CategoryChoices : HandleCategoryChange(v)
  \/ HandleSubmit
  \/ \E o \in SaveOutcomes : SaveSettle(o)
  \/ HandleSubmitResume
  \/ OnSuccess
  \/ \E t \in ListedTransactions : HandleEdit(t)
  \/ HandleCancel
  \/ \E f \in 1..MaxFetches : FetchSettle(f, "ok", FullList)
  \/ \E f \in 1..MaxFetches : FetchTransactionsResume(f)

FormSpec == Init /\ [][FormNext]_vars

\* The Transactions page with its list: a user who fills the form in with
\* valid values and saves, deletes rows and tries again after a failure,
\* while the list requests are answered in any order.
ListNext ==
  \/ HandleChange("amount", "12.5")
  \/ HandleChange("description", <<"r">>)
  \/ HandleSubmit
  \/ SaveSettle("ok")
  \/ HandleSubmitResume
  \/ OnSuccess
  \/ \E f \in 1..MaxFetches, o \in ListOutcomes, d \in ListResponses :
       FetchSettle(f, o, d)
  \/ \E f \in 1..MaxFetches : FetchTransactionsResume(f)
  \/ TryAgainClick
  \/ HandleDeleteConfirm
  \/ \E o \in ListOutcomes : HandleDeleteConfirmResume(o)

ListSpec == Init /\ [][ListNext]_vars

\* ------------------------------------------- the dashboard: what it shows
\* A field of the summary response, in cents, and a field the response lacks.
Field(cents) == [present |-> TRUE, v |-> cents]

Absent == [present |-> FALSE, v |-> 0]

\* The default of the destructuring: const { total_expense = 0, ... } = summary.
OrZero(field) == IF field.present THEN field.v ELSE 0

\* (amount / total_expense) * 100 in JavaScript arithmetic: a division by
\* zero gives NaN for 0 / 0 and an infinity otherwise.
Percentage(amount, total_expense) ==
  IF total_expense # 0
    THEN [kind |-> "finite", num |-> amount * 100, den |-> total_expense]
    ELSE IF amount = 0 THEN [kind |-> "NaN", num |-> 0, den |-> 0]
    ELSE IF amount > 0 THEN [kind |-> "Infinity", num |-> 0, den |-> 0]
    ELSE [kind |-> "-Infinity", num |-> 0, den |-> 0]

\* The data prop Dashboard hands to ExpenseDonutChart.
DonutData(s) ==
  { [name |-> c,
     value |-> s.expenses_by_category[c],
     percentage |-> Percentage(s.expenses_by_category[c], OrZero(s.total_expense))] :
    c \in DOMAIN s.expenses_by_category }

\* Dashboard is on screen: Home is neither loading nor showing its error.
DashboardShown ==
  /\ ~homeLoading
  /\ homeError = ""
  /\ summary # NoSummary

DigitChars == <<"0", "1", "2", "3", "4", "5", "6", "7", "8", "9">>

RECURSIVE Digits(_)
Digits(n) ==
  IF n < 10 THEN <<DigitChars[n + 1]>>
  ELSE Append(Digits(n \div 10), DigitChars[(n % 10) + 1])

ThreeDigits(n) ==
  <<DigitChars[(n \div 100) + 1], DigitChars[((n \div 10) % 10) + 1],
    DigitChars[(n % 10) + 1]>>

\* Whole dollars with the grouping of the en-US locale.
RECURSIVE Grouped(_)
Grouped(n) ==
  IF n < 1000 THEN Digits(n)
  ELSE Grouped(n \div 1000) \o <<",">> \o ThreeDigits(n % 1000)

\* formatCurrency on an amount given in cents, as a sequence of characters.
FormatCurrency(cents) ==
  LET a == IF cents < 0 THEN -cents ELSE cents
  IN  (IF cents < 0 THEN <<"-">> ELSE <<>>) \o <<"$">> \o Grouped(a \div 100)
        \o <<".">> \o <<DigitChars[((a % 100) \div 10) + 1], DigitChars[(a % 10) + 1]>>

IncomeCard == FormatCurrency(OrZero(summary.total_income))

ExpenseCard == FormatCurrency(OrZero(summary.total_expense))

\* Faulty variant: the balance card repeats the income.
BalanceCard_Income == FormatCurrency(OrZero(summary.total_income))

BalanceCard == FormatCurrency(OrZero(summary.balance))

\* ------------------------------------------------ the dashboard: the server
\* The transactions the ledger may come to hold: amounts in cents, above zero.
LedgerTransactions ==
  { [amount |-> 100000, type |-> "income", category |-> "Income"],
    [amount |-> 20000, type |-> "expense", category |-> "Food & Dining"],
    [amount |-> 5000, type |-> "expense", category |-> "Transportation"],
    [amount |-> 1, type |-> "expense", category |-> "Food & Dining"] }

RECURSIVE SumOfType(_, _)
SumOfType(l, type) ==
  IF l = <<>> THEN 0
  ELSE (IF Head(l).type = type THEN Head(l).amount ELSE 0) + SumOfType(Tail(l), type)

RECURSIVE SumOfCategory(_, _)
SumOfCategory(l, c) ==
  IF l = <<>> THEN 0
  ELSE (IF Head(l).type = "expense" /\ Head(l).category = c THEN Head(l).amount ELSE 0)
         + SumOfCategory(Tail(l), c)

\* computeSummary of the server: totals by type, their difference, and the
\* breakdown of the expenses by category.
ComputeSummary(l) ==
  LET income == SumOfType(l, "income")
      expense == SumOfType(l, "expense")
      spent == { l[i].category : i \in { j \in DOMAIN l : l[j].type = "expense" } }
  IN  [total_income |-> Field(income),
       total_expense |-> Field(expense),
       balance |-> Field(income - expense),
       expenses_by_category |-> [c \in spent |-> SumOfCategory(l, c)]]

\* ---------------------------------------------- the dashboard: the page
HomeError == "Failed to load dashboard data. Please try again."

SummaryOutcomes == {"ok", "failed"}

\* The server comes to hold one transaction more.
LedgerAppend(t) ==
  /\ Len(ledger) < MaxLedger
  /\ ledger' = Append(ledger, t)
  /\ UNCHANGED <<summary, homeLoading, homeError, donutData, dashEnv>>

\* fetchDashboardSummary after its await, and the render that follows: the
\* summary of the server becomes the state and Dashboard is rendered with it,
\* or the error is shown.
FetchDashboardSummaryResume(outcome) ==
  /\ homeLoading
  /\ homeLoading' = FALSE
  /\ IF outcome = "ok"
       THEN /\ summary' = ComputeSummary(ledger)
            /\ donutData' = DonutData(summary')
            /\ UNCHANGED homeError
       ELSE /\ homeError' = HomeError
            /\ donutData' = {}
            /\ UNCHANGED summary
  /\ UNCHANGED <<ledger, dashEnv>>

\* The Try Again button of the error view: fetchDashboardSummary to its await.
FetchDashboardSummary ==
  /\ ~homeLoading
  /\ homeError # ""
  /\ homeLoading' = TRUE
  /\ homeError' = ""
  /\ donutData' = {}
  /\ UNCHANGED <<ledger, summary, dashEnv>>

\* The user leaves the page and comes back: Home starts anew and fetches.
HomeRemount ==
  /\ summary' = NoSummary
  /\ homeLoading' = TRUE
  /\ homeError' = ""
  /\ donutData' = {}
  /\ UNCHANGED <<ledger, dashEnv>>

SummaryNext ==
  \/ \E t \in LedgerTransactions : LedgerAppend(t)
  \/ \E o \in SummaryOutcomes : FetchDashboardSummaryResume(o)
  \/ FetchDashboardSummary
  \/ HomeRemount

SummarySpec == Init /\ [][SummaryNext]_vars

\* ------------------------------------- the dashboard: the donut, by itself
\* The breakdowns a summary prop may carry.
BreakdownInputs ==
  UNION { [S -> {0, 5000, 20000}] : S \in SUBSET {"Food & Dining", "Transportation"} }

\* The summary props Dashboard is rendered with: each total present or not.
SummaryProps ==
  [total_income : {Absent, Field(100000)},
   total_expense : {Absent, Field(0), Field(25000)},
   balance : {Absent, Field(75000)},
   expenses_by_category : BreakdownInputs]

PercentInit ==
  /\ ChatInit
  /\ ClockInit
  /\ QuickInit
  /\ FormInit
  /\ ListInit
  /\ SignedIn
  /\ ServerInit
  /\ ledger = <<>>
  /\ summary \in SummaryProps
  /\ homeLoading = FALSE
  /\ homeError = ""
  /\ donutData = {}

\* Dashboard renders the donut chart from its summary prop.
RenderDashboard ==
  /\ DashboardShown
  /\ donutData' = DonutData(summary)
  /\ UNCHANGED <<ledger, summary, homeLoading, homeError, dashEnv>>

PercentNext == RenderDashboard

PercentSpec == PercentInit /\ [][PercentNext]_vars

\* --------------------------------- authentication: provider, client, router
\* isAuthenticated: !!token && !!user.
IsAuthenticated == token # NoToken /\ user

\* Faulty variant: the route does not wait for the initial user load.
ProtectedRoute_NoLoadingCheck(loading, isAuthenticated) ==
  IF isAuthenticated THEN "children" ELSE "navigate"

\* What ProtectedRoute returns: the loading screen, its children, or the
\* redirect to /login.
ProtectedRoute(loading, isAuthenticated) ==
  IF loading THEN "loading"
  ELSE IF isAuthenticated THEN "children" ELSE "navigate"

\* What AppRouter renders at the current path.
Rendered ==
  IF location \in ProtectedPaths
    THEN ProtectedRoute(authLoading, IsAuthenticated)
    ELSE IF IsAuthenticated THEN "navigate" ELSE "form"

\* A call through the api client: fn is the function that awaits it, step
\* the request it is at, n the number of the login or register call.
NewCall(fn, step, n, initial) ==
  [fn |-> fn, step |-> step, n |-> n, initial |-> initial,
   settled |-> "pending", phase |-> "awaiting"]

\* The positions authCalls can have between two loads of the app.
CallIds == 1..(2 * MaxLogins + 1)

\* Faulty variant: without a token the effect leaves loading as it is.
LoadUser_OnlyWithToken ==
  /\ effectPending # "none"
  /\ IF token # NoToken
       THEN /\ authCalls' = Append(authCalls,
                   NewCall("loadUser", "me", 0, effectPending = "mount"))
            /\ UNCHANGED authLoading
       ELSE UNCHANGED <<authLoading, authCalls>>
  /\ effectPending' = "none"
  /\ UNCHANGED <<storageToken, storageUser, token, user, logins, location,
                 unloading, authEnv>>

\* The effect of AuthProvider, run on mount and after each change of token:
\* loadUser up to its await, or to its end when there is no token.
LoadUser ==
  /\ effectPending # "none"
  /\ IF token # NoToken
       THEN /\ authCalls' = Append(authCalls,
                   NewCall("loadUser", "me", 0, effectPending = "mount"))
            /\ UNCHANGED authLoading
       ELSE /\ authLoading' = FALSE
            /\ UNCHANGED authCalls
  /\ effectPending' = "none"
  /\ UNCHANGED <<storageToken, storageUser, token, user, logins, location,
                 unloading, authEnv>>

\* Faulty variant: a 401 leaves the item 'user' in localStorage.
ResponseInterceptor_KeepsUser(c, status) ==
  /\ c \in DOMAIN authCalls
  /\ authCalls[c].settled = "pending"
  /\ authCalls' = [authCalls EXCEPT
        ![c].settled = IF status = "200" THEN "fulfilled" ELSE "rejected"]
  /\ IF status = "401"
       THEN /\ storageToken' = NoToken
            /\ unloading' = TRUE
            /\ UNCHANGED storageUser
       ELSE UNCHANGED <<storageToken, storageUser, unloading>>
  /\ UNCHANGED <<token, user, authLoading, effectPending, logins, location,
                 authEnv>>

\* A request of the call ends with the given status and the response
\* interceptor handles it: a 401 clears localStorage and sends the browser
\* to /login; every failure is passed on as a rejection.
ResponseInterceptor(c, status) ==
  /\ c \in DOMAIN authCalls
  /\ authCalls[c].settled = "pending"
  /\ authCalls' = [authCalls EXCEPT
        ![c].settled = IF status = "200" THEN "fulfilled" ELSE "rejected"]
  /\ IF status = "401"
       THEN /\ storageToken' = NoToken
            /\ storageUser' = FALSE
            /\ unloading' = TRUE
       ELSE UNCHANGED <<storageToken, storageUser, unloading>>
  /\ UNCHANGED <<token, user, authLoading, effectPending, logins, location,
                 authEnv>>

\* setToken(value): the effect is due again when the token changes.
EffectAfter(value) ==
  IF value # token /\ effectPending = "none" THEN "change" ELSE effectPending

\* loadUser after its await.
LoadUserResume(c) ==
  /\ c \in DOMAIN authCalls
  /\ authCalls[c].fn = "loadUser"
  /\ authCalls[c].phase = "awaiting"
  /\ authCalls[c].settled # "pending"
  /\ IF authCalls[c].settled = "fulfilled"
       THEN /\ user' = TRUE
            /\ UNCHANGED <<storageToken, token, effectPending>>
       ELSE /\ storageToken' = NoToken
            /\ token' = NoToken
            /\ effectPending' = EffectAfter(NoToken)
            /\ UNCHANGED user
  /\ authLoading' = FALSE
  /\ authCalls' = [authCalls EXCEPT ![c].phase = "done"]
  /\ UNCHANGED <<storageUser, logins, location, unloading, authEnv>>

\* login or register of the provider up to its first await, called by the
\* form of its page, whose fields and button are disabled while its call is
\* awaited.
Login(fn) ==
  /\ fn = IF location = "/login" THEN "login" ELSE "register"
  /\ Rendered = "form"
  /\ effectPending = "none"
  /\ \A c \in DOMAIN authCalls :
       authCalls[c].fn = "loadUser" \/ authCalls[c].phase # "awaiting"
  /\ logins < MaxLogins
  /\ logins' = logins + 1
  /\ authCalls' = Append(authCalls, NewCall(fn, "token", logins + 1, FALSE))
  /\ UNCHANGED <<storageToken, storageUser, token, user, authLoading,
                 effectPending, location, unloading, authEnv>>

\* login or register after an await.  After the token request the token is
\* stored and the current user is requested; after that request the user is
\* set.  A failed request rejects the call.  The Register page goes to / when
\* register has resolved.
LoginResume(c) ==
  /\ c \in DOMAIN authCalls
  /\ authCalls[c].fn \in {"login", "register"}
  /\ authCalls[c].phase = "awaiting"
  /\ authCalls[c].settled # "pending"
  /\ IF authCalls[c].settled = "rejected"
       THEN /\ authCalls' = [authCalls EXCEPT ![c].phase = "rejected"]
            /\ UNCHANGED <<storageToken, token, user, effectPending, location>>
       ELSE IF authCalls[c].step = "token"
       THEN /\ storageToken' = authCalls[c].n + 1
            /\ token' = authCalls[c].n + 1
            /\ effectPending' = EffectAfter(authCalls[c].n + 1)
            /\ authCalls' = [authCalls EXCEPT ![c].step = "me",
                                               ![c].settled = "pending"]
            /\ UNCHANGED <<user, location>>
       ELSE /\ user' = TRUE
            /\ authCalls' = [authCalls EXCEPT ![c].phase = "resolved"]
            /\ location' = IF authCalls[c].fn = "register" THEN "/" ELSE location
            /\ UNCHANGED <<storageToken, token, effectPending>>
  /\ UNCHANGED <<storageUser, authLoading, logins, unloading, authEnv>>

\* handleLogout of Navbar, which is rendered when authenticated: logout of
\* the provider, then navigate('/login').
Logout ==
  /\ IsAuthenticated
  /\ effectPending = "none"
  /\ storageToken' = NoToken
  /\ token' = NoToken
  /\ user' = FALSE
  /\ effectPending' = EffectAfter(NoToken)
  /\ location' = "/login"
  /\ UNCHANGED <<storageUser, authLoading, authCalls, logins, unloading, authEnv>>

\* The router follows the Navigate element the current route renders.
Navigate ==
  /\ Rendered = "navigate"
  /\ location' = IF location \in ProtectedPaths THEN "/login" ELSE "/"
  /\ UNCHANGED <<storageToken, storageUser, token, user, authLoading,
                 effectPending, authCalls, logins, unloading, authEnv>>

\* A link: Navbar links the protected pages, the two forms link each other.
Visit(path) ==
  /\ path # location
  /\ effectPending = "none"
  /\ \/ IsAuthenticated /\ path \in ProtectedPaths
     \/ Rendered = "form" /\ path \in AuthPaths
  /\ location' = path
  /\ UNCHANGED <<storageToken, storageUser, token, user, authLoading,
                 effectPending, authCalls, logins, unloading, authEnv>>

\* The browser follows the assignment to window.location.href: the app is
\* loaded anew at /login.
PageLoad ==
  /\ unloading
  /\ location' = "/login"
  /\ token' = storageToken
  /\ user' = FALSE
  /\ authLoading' = TRUE
  /\ effectPending' = "mount"
  /\ authCalls' = <<>>
  /\ unloading' = FALSE
  /\ UNCHANGED <<storageToken, storageUser, logins, authEnv>>

AuthStart ==
  /\ ChatInit
  /\ ClockInit
  /\ QuickInit
  /\ FormInit
  /\ ListInit
  /\ DashInit
  /\ AuthInit
  /\ ServerInit

AuthNext ==
  \/ LoadUser
  \/ \E c \in CallIds, status \in Statuses : ResponseInterceptor(c, status)
  \/ \E c \in CallIds : LoadUserResume(c)
  \/ \E fn \in {"login", "register"} : Login(fn)
  \/ \E c \in CallIds : LoginResume(c)
  \/ Logout
  \/ Navigate
  \/ \E path \in ProtectedPaths \cup AuthPaths : Visit(path)
  \/ PageLoad

AuthSpec == AuthStart /\ [][AuthNext]_vars

\* Every request completes, every continuation and effect runs, and the
\* browser follows an assignment to window.location.href.
FairAuthSpec ==
  /\ AuthSpec
  /\ WF_vars(LoadUser)
  /\ \A c \in CallIds : WF_vars(\E status \in Statuses : ResponseInterceptor(c, status))
  /\ \A c \in CallIds : WF_vars(LoadUserResume(c))
  /\ \A c \in CallIds : WF_vars(LoginResume(c))
  /\ WF_vars(PageLoad)

\* ------------------------------------------ the aggregation engine: trends
TrendPeriods == {"weekly", "monthly"}

\* The days, counted from 1 January, on which January, February and March
\* begin.
MonthStarts == <<0, 31, 59>>

\* The period a date falls in: the number of its week, or of its month.
PeriodOf(date, period) ==
  IF period = "weekly"
    THEN date \div 7
    ELSE Cardinality({m \in DOMAIN MonthStarts : MonthStarts[m] <= date}) - 1

\* Transactions with their dates (day of the year), amounts in cents.
DatedTransactions ==
  { [id |-> 1, date |-> 35, amount |-> 1250, type |-> "income"],
    [id |-> 2, date |-> 40, amount |-> 500, type |-> "expense"],
    [id |-> 3, date |-> 75, amount |-> 500, type |-> "expense"] }

\* The days a trends request is made on.
Todays == {62, 89}

RECURSIVE SumAmounts(_)
SumAmounts(ts) ==
  IF ts = {} THEN 0
  ELSE LET t == CHOOSE x \in ts : TRUE IN t.amount + SumAmounts(ts \ {t})

\* The entry of one period: the sums of the transactions whose date
\* truncates to it.
TrendPoint(ts, period, p) ==
  [period |-> p,
   income |-> SumAmounts({t \in ts : t.type = "income" /\ PeriodOf(t.date, period) = p}),
   expense |-> SumAmounts({t \in ts : t.type = "expense" /\ PeriodOf(t.date, period) = p})]

\* Faulty variant: only the periods that have transactions are emitted.
ComputeTrends_OnlyWithData(ts, period, limit, today) ==
  LET last == PeriodOf(today, period)
      with == {p \in (last - limit + 1)..last :
                 \E t \in ts : PeriodOf(t.date, period) = p}
  IN [i \in 1..Cardinality(with) |->
        TrendPoint(ts, period,
                   CHOOSE p \in with : Cardinality({q \in with : q < p}) = i - 1)]

\* computeTrends: limit consecutive periods ending at the current one,
\* earliest first.
ComputeTrends(ts, period, limit, today) ==
  LET last == PeriodOf(today, period)
  IN [i \in 1..limit |-> TrendPoint(ts, period, last - limit + i)]

\* What a trends request may be computed from.
TrendsInputs ==
  [transactions : SUBSET DatedTransactions, period : TrendPeriods,
   limit : 1..MaxLimit, today : Todays]

\* A caller has called dashboardAPI.getTrends(period, limit).
TrendsStart ==
  /\ ChatInit
  /\ ClockInit
  /\ QuickInit
  /\ FormInit
  /\ ListInit
  /\ DashInit
  /\ SignedIn
  /\ trendsInput \in TrendsInputs
  /\ trendsData = NoTrends
  /\ contextInput = NoInput
  /\ contextBundle = NoBundle

\* The response arrives: the caller keeps the series.
GetTrendsResume ==
  /\ trendsData = NoTrends
  /\ trendsData' = ComputeTrends(trendsInput.transactions, trendsInput.period,
                                 trendsInput.limit, trendsInput.today)
  /\ UNCHANGED <<trendsInput, contextInput, contextBundle, serverEnv>>

TrendsNext == GetTrendsResume

TrendsSpec == TrendsStart /\ [][TrendsNext]_vars

\* ------------------------------------------------------ the context builder
\* Summaries a context is built from.
ContextSummaries ==
  { [total_income |-> 12, total_expense |-> 5, balance |-> 7],
    [total_income |-> 0, total_expense |-> 0, balance |-> 0] }

\* Categories with their spend; order is the place of the name in the
\* alphabet.
ContextCategories ==
  { [name |-> "Food & Dining", order |-> 1, amount |-> 3],
    [name |-> "Travel", order |-> 2, amount |-> 3],
    [name |-> "Shopping", order |-> 0, amount |-> 2] }

SampleTransactions ==
  { [id |-> 1, date |-> 35], [id |-> 2, date |-> 35], [id |-> 3, date |-> 40] }

\* Categories by spend descending, ties by name ascending.
CategoryBefore(a, b) ==
  a.amount > b.amount \/ (a.amount = b.amount /\ a.order < b.order)

\* Transactions by date descending, ties by id descending.
TransactionBefore(a, b) ==
  a.date > b.date \/ (a.date = b.date /\ a.id > b.id)

\* The categories and the transactions in their order of priority.
RankedCategories(set) ==
  [i \in 1..Cardinality(set) |->
     CHOOSE x \in set : Cardinality({y \in set : CategoryBefore(y, x)}) = i - 1]

RankedTransactions(set) ==
  [i \in 1..Cardinality(set) |->
     CHOOSE x \in set : Cardinality({y \in set : TransactionBefore(y, x)}) = i - 1]

\* The serialized tiers: totals and balance, a category, a transaction.
TotalsText(s) ==
  <<"i">> \o Digits(s.total_income) \o <<"e">> \o Digits(s.total_expense)
    \o <<"b">> \o Digits(s.balance)

CategoryText(c) == <<"c", DigitChars[c.order + 1]>> \o Digits(c.amount)

TransactionText(t) == <<"t">> \o Digits(t.id)

RECURSIVE CategoryLines(_)
CategoryLines(categories) ==
  IF categories = <<>> THEN <<>>
  ELSE CategoryText(Head(categories)) \o CategoryLines(Tail(categories))

RECURSIVE TransactionLines(_)
TransactionLines(sample) ==
  IF sample = <<>> THEN <<>>
  ELSE TransactionText(Head(sample)) \o TransactionLines(Tail(sample))

Serialize(s, categories, sample) ==
  TotalsText(s) \o CategoryLines(categories) \o TransactionLines(sample)

\* The truncation policy: while the serialized size exceeds maxChars, drop the
\* oldest transaction; when none is left, the smallest category; the totals
\* are never dropped.
RECURSIVE Truncate(_, _, _, _)
Truncate(s, categories, sample, maxChars) ==
  IF Len(Serialize(s, categories, sample)) <= maxChars
    THEN [categories |-> categories, sample |-> sample]
  ELSE IF sample # <<>>
    THEN Truncate(s, categories, SubSeq(sample, 1, Len(sample) - 1), maxChars)
  ELSE IF categories # <<>>
    THEN Truncate(s, SubSeq(categories, 1, Len(categories) - 1), sample, maxChars)
  ELSE [categories |-> categories, sample |-> sample]

\* Faulty variant: nothing is dropped.
BuildContext_Untruncated(s, categories, sample, maxChars) ==
  LET c == RankedCategories(categories)
      t == RankedTransactions(sample)
  IN [text |-> Serialize(s, c, t), categories |-> c, sample |-> t]

\* buildContext: the tiers in their order of priority, truncated to maxChars.
BuildContext(s, categories, sample, maxChars) ==
  LET kept == Truncate(s, RankedCategories(categories),
                       RankedTransactions(sample), maxChars)
  IN [text |-> Serialize(s, kept.categories, kept.sample),
      categories |-> kept.categories, sample |-> kept.sample]

\* What a context may be built from.
ContextInputs ==
  [summary : ContextSummaries, categories : SUBSET ContextCategories,
   sample : SUBSET SampleTransactions, maxChars : 0..MaxChars]

\* An advisory request with includeContext has reached the server.
ContextStart ==
  /\ ChatInit
  /\ ClockInit
  /\ QuickInit
  /\ FormInit
  /\ ListInit
  /\ DashInit
  /\ SignedIn
  /\ trendsInput = NoInput
  /\ trendsData = NoTrends
  /\ contextInput \in ContextInputs
  /\ contextBundle = NoBundle

\* The server builds the context of the request.
ContextBuilt ==
  /\ contextBundle = NoBundle
  /\ contextBundle' = BuildContext(contextInput.summary, contextInput.categories,
                                   contextInput.sample, contextInput.maxChars)
  /\ UNCHANGED <<trendsInput, trendsData, contextInput, serverEnv>>

ContextNext == ContextBuilt

ContextSpec == ContextStart /\ [][ContextNext]_vars

\* ------------------------------------------------------- a long session
\* The length the specification gives as the most the history may hold.
HistoryCap == 200

\* Requests enough for one message more than HistoryCap.
CapRequests == HistoryCap \div 2 + 1

CapInit ==
  /\ mounted = TRUE
  /\ messages = <<>>
  /\ isLoading = FALSE
  /\ requests = <<>>
  /\ appendLog = [r \in 1..CapRequests |-> [user |-> 0, assistant |-> 0]]
  /\ ClockInit
  /\ QuickInit
  /\ FormInit
  /\ ListInit
  /\ DashInit
  /\ SignedIn
  /\ ServerInit

\* One user pressing "Analyze Budget" again and again, each press answered.
CapNext ==
  \/ AnalyzeBudgetClick
  \/ \E r \in 1..CapRequests, t \in Replies : ProviderSettle(r, "ok", t)
  \/ \E r \in 1..CapRequests : AnalyzeBudgetResume(r)

CapSpec == CapInit /\ [][CapNext]_vars

\* ---------------------------------------------- the chat as the user has it
\* Every question a catalog holds.
CatalogQuestions == UNION { { c[i] : i \in DOMAIN c } : c \in QuickCatalogs }

\* The events of the rendered ChatInterface: its controls, the responses of
\* its calls and its mounting.
QuickNext ==
  \/ \E o \in FetchOutcomes, c \in QuickCatalogs : FetchQuickQuestionsResume(o, c)
  \/ \E q \in CatalogQuestions : QuickSelect(q)
  \/ \E v \in QuestionInputs : ChatInputSubmit(v)
  \/ AnalyzeBudgetClick
  \/ ClearClick
  \/ \E r \in 1..MaxRequests, o \in Outcomes, t \in Replies : ProviderSettle(r, o, t)
  \/ \E r \in 1..MaxRequests : SendMessageResume(r)
  \/ \E r \in 1..MaxRequests : AnalyzeBudgetResume(r)
  \/ Unmount
  \/ Mount

QuickSpec == Init /\ [][QuickNext]_vars

\* sendMessage called with any question at any time, in a mounted chat whose
\* list of quick questions arrives.
SessionNext ==
  \/ \E o \in FetchOutcomes, c \in QuickCatalogs : FetchQuickQuestionsResume(o, c)
  \/ \E q \in QuestionInputs, c \in BOOLEAN : SendMessage(q, c)
  \/ \E r \in 1..MaxRequests, o \in Outcomes, t \in Replies : ProviderSettle(r, o, t)
  \/ \E r \in 1..MaxRequests : SendMessageResume(r)
  \/ ClearMessages

SessionSpec == Init /\ [][SessionNext]_vars

\* The chat session with both clocks running.
ClockNext ==
  \/ Next
  \/ Tick
  \/ ServerTick

ClockSpec == Init /\ [][ClockNext]_vars

\* The continuation of an await runs once the awaited promise has settled.
FairSpec ==
  /\ Spec
  /\ WF_vars(\E r \in 1..MaxRequests : SendMessageResume(r))
  /\ WF_vars(\E r \in 1..MaxRequests : AnalyzeBudgetResume(r))

\* ------------------------------------------------------------- properties
Outstanding(r) == r \in DOMAIN requests /\ requests[r].phase = "awaiting"

Returned(r) == r \in DOMAIN requests /\ requests[r].phase = "returned"

\* The requests of the mounted session that have not resolved yet.
OutstandingLive == { r \in DOMAIN requests : Live(r) /\ Outstanding(r) }

Odd(i) == i % 2 = 1

\* C1: the history is a sequence of (user message, assistant message) pairs of
\* one request each, followed by at most one trailing user message whose request
\* is still outstanding; the messages of two requests are never interleaved.
C1_HistoryPaired ==
  \A i \in 1..Len(messages) :
    IF Odd(i)
      THEN /\ messages[i].isUser
           /\ IF i = Len(messages)
                THEN Outstanding(messages[i].req)
                ELSE /\ ~messages[i + 1].isUser
                     /\ messages[i + 1].req = messages[i].req
      ELSE ~messages[i].isUser

\* C2: at most one advisory request of a chat session is outstanding at any
\* time, whoever calls the hook and whenever.
C2_OneOutstanding == Cardinality(OutstandingLive) <= 1

\* C3: a sendMessage or analyzeBudget call issued while isLoading is true changes
\* nothing: it dispatches no provider request and appends no user message.
C3_BusyRejected ==
  [][(mounted /\ isLoading) =>
       /\ Len(requests') = Len(requests)
       /\ \A r \in 1..MaxRequests : appendLog'[r].user = appendLog[r].user]_vars

\* a request whose continuation took the catch block
Failed(r) == Returned(r) /\ ~TrySucceeds(requests[r])

\* C4: every accepted sendMessage or analyzeBudget call appends exactly one user
\* message and, once its provider call has resolved, exactly one assistant
\* message (never two, and none before), the user message first.
C4_OneUserOneAssistant ==
  /\ \A r \in 1..MaxRequests :
       /\ appendLog[r].user = (IF r \in DOMAIN requests THEN 1 ELSE 0)
       /\ appendLog[r].assistant = (IF Returned(r) THEN 1 ELSE 0)
  /\ \A i, j \in 1..Len(messages) :
       (messages[i].req = messages[j].req /\ messages[i].isUser /\ ~messages[j].isUser)
         => i < j
  /\ \A i, j \in 1..Len(messages) :
       (messages[i].req = messages[j].req /\ messages[i].isUser = messages[j].isUser)
         => i = j

\* a request of the mounted session resolved and both its messages are in the history
C4_Witness ==
  \E r \in DOMAIN requests :
    /\ Returned(r) /\ Live(r)
    /\ \E i, j \in 1..Len(messages) :
         /\ i < j
         /\ messages[i].req = r /\ messages[i].isUser
         /\ messages[j].req = r /\ ~messages[j].isUser

\* C5: a failed provider call is retried exactly once, so the error message of a
\* request appears only after its second provider call has failed.
C5_ErrorAfterOneRetry ==
  \A r \in DOMAIN requests : Failed(r) => requests[r].calls = 2

\* The fallback text the specification fixes for a terminal failure.
FallbackText == "Sorry, I encountered an error. Please try again."

\* C6 as stated: the assistant message of a request whose provider call failed
\* has error = true and the one fallback text, for sendMessage and analyzeBudget
\* alike.
C6_OneFallbackText ==
  \A i \in 1..Len(messages) :
    (~messages[i].isUser /\ Failed(messages[i].req)) =>
      (messages[i].isError /\ messages[i].text = FallbackText)

\* The fallback text of a failed budget analysis.
BudgetFallbackText == "Sorry, I could not analyze your budget. Please try again."

\* C6 (amended): the assistant message of a request whose provider call failed
\* has error = true and a fixed fallback text that depends on the operation
\* only: FallbackText for sendMessage, BudgetFallbackText for analyzeBudget.
C6_FallbackPerOperation ==
  \A i \in 1..Len(messages) :
    (~messages[i].isUser /\ Failed(messages[i].req)) =>
      /\ messages[i].isError
      /\ messages[i].text =
           (IF requests[messages[i].req].op = "sendMessage"
              THEN FallbackText ELSE BudgetFallbackText)

\* the history holds the error message of a failed analyzeBudget and that of a
\* failed sendMessage
C6_Witness ==
  /\ \E i \in 1..Len(messages) :
       /\ messages[i].isError
       /\ requests[messages[i].req].op = "analyzeBudget"
       /\ requests[messages[i].req].net = "failed"
  /\ \E i \in 1..Len(messages) :
       /\ messages[i].isError
       /\ requests[messages[i].req].op = "sendMessage"
       /\ requests[messages[i].req].net = "failed"

\* C7: no outcome of the provider call is raised past sendMessage or
\* analyzeBudget: the operation completes normally, and a failure shows only as
\* an error-flagged assistant message of that request.
C7_NeverRaised ==
  /\ \A r \in DOMAIN requests :
       requests[r].completion = (IF Returned(r) THEN "fulfilled" ELSE "none")
  /\ \A i \in 1..Len(messages) :
       ~messages[i].isUser =>
         /\ Returned(messages[i].req)
         /\ messages[i].isError = Failed(messages[i].req)

\* a failed provider call that ended as an error message in the history
C7_Witness ==
  \E i \in 1..Len(messages) :
    /\ messages[i].isError
    /\ requests[messages[i].req].net = "failed"
    /\ requests[messages[i].req].completion = "fulfilled"

\* C8: isLoading is true exactly when a request of the session has been
\* dispatched and has not resolved yet.
C8_LoadingIffOutstanding ==
  mounted => (isLoading <=> OutstandingLive # {})

\* C9: every dispatched request eventually resolves, also when the provider
\* never answers.
C9_EventuallyResolves ==
  \A r \in 1..MaxRequests : Outstanding(r) ~> Returned(r)

\* C10: once the session is torn down no provider call of it is still in
\* flight.
C10_TeardownCancels ==
  \A r \in DOMAIN requests : ~requests[r].live => requests[r].net # "inflight"

\* The number an id was rendered from by toString().
IdNumber(id) == CHOOSE n \in 0..(MaxClock + 1) : ToString(n) = id

\* C11: the ids of the messages are strictly increasing in history order, also
\* for messages created within one millisecond of each other.
C11_IdsIncreasing ==
  \A i, j \in 1..Len(messages) :
    i < j => IdNumber(messages[i].id) < IdNumber(messages[j].id)

\* C12: the timestamps of the messages are non-decreasing in history order.
C12_TimestampsNonDecreasing ==
  \A i, j \in 1..Len(messages) :
    i < j => messages[i].timestamp <= messages[j].timestamp

\* C13: the history never holds more than HistoryCap messages: an append
\* beyond the cap evicts the oldest message.
C13_HistoryCapped == Len(messages) <= HistoryCap

\* The text the user message of a budget analysis is to carry.
ExpectedAnalysisText(periodDays) ==
  CASE periodDays = 7 -> "Analyze my budget for the last 7 days"
    [] periodDays = 30 -> "Analyze my budget for the last 30 days"

\* C14: analyzeBudget(periodDays) appends one user message whose text is
\* "Analyze my budget for the last {periodDays} days" and dispatches exactly
\* one budget-analysis request carrying the same periodDays.
C14_AnalyzeBudgetStep ==
  [][\A p \in PeriodInputs :
       AnalyzeBudget(p) =>
         /\ Len(messages') = Len(messages) + 1
         /\ SubSeq(messages', 1, Len(messages)) = messages
         /\ messages'[Len(messages')].isUser
         /\ messages'[Len(messages')].text = ExpectedAnalysisText(p)
         /\ Len(requests') = Len(requests) + 1
         /\ SubSeq(requests', 1, Len(requests)) = requests
         /\ requests'[Len(requests')].url = "/ai-chat/analyze-budget"
         /\ requests'[Len(requests')].body = [period_days |-> p]
         /\ requests'[Len(requests')].calls = 1]_vars

C14_Witness ==
  \E r \in DOMAIN requests, i \in DOMAIN messages :
    /\ requests[r].op = "analyzeBudget"
    /\ requests[r].body.period_days = 7
    /\ messages[i].req = r
    /\ messages[i].text = "Analyze my budget for the last 7 days"

\* The run has a request left to spend.
RequestLeft == Len(requests) + 1 \in DOMAIN appendLog

\* C15: the quick questions are on offer only while the history is empty: with
\* a message in the history none can be selected, and once the history is
\* emptied again every question of the list can.
C15_QuickOnlyWhenEmpty ==
  /\ Len(messages) >= 1 =>
       /\ ~QuickQuestionsShown
       /\ \A q \in CatalogQuestions : ~ENABLED QuickSelect(q)
  /\ (mounted /\ Len(messages) = 0 /\ ~isLoading /\ RequestLeft) =>
       \A i \in DOMAIN quickQuestions :
         QuickQuestionsShown /\ ENABLED QuickSelect(quickQuestions[i])

\* The history was emptied by the clear button and the list is on offer again.
C15_Witness ==
  /\ QuickQuestionsShown
  /\ RequestLeft
  /\ \E r \in DOMAIN requests : Live(r) /\ Returned(r)

\* C16: selecting the quick question q is the step that submitting q as
\* free-form input is: the same user message, the same request, the same
\* change of history and isLoading.
C16_QuickAsTyped ==
  [][\A q \in CatalogQuestions : QuickSelect(q) => ChatInputSubmit(q)]_vars

\* C16, for the questions the input would not alter: a quick question without
\* surrounding whitespace is handled as the same text typed into the input.
C16_QuickAsTypedTrimmed ==
  [][\A q \in CatalogQuestions :
       Trim(q) = q =>
         /\ QuickSelect(q) => ChatInputSubmit(q)
         /\ (QuickQuestionsShown /\ (\E i \in DOMAIN quickQuestions : quickQuestions[i] = q)
               /\ ChatInputSubmit(q)) => QuickSelect(q)]_vars

\* The quick question "b" was selected and is awaiting its answer.
C16_Witness ==
  \E r \in DOMAIN requests :
    /\ Live(r) /\ Outstanding(r)
    /\ requests[r].body = [question |-> "b", include_context |-> TRUE]
    /\ isLoading
    /\ messages[Len(messages)].text = "b"

\* The values of the amount field that stand for an amount above zero.
PositiveAmounts == {"5", "12.5"}

\* A description of spaces only, or of nothing.
Blank(d) == \A i \in DOMAIN d : d[i] = " "

\* C18: a submit with a missing or non-positive amount, or with a blank
\* description, is rejected at once: an error is shown, no call is dispatched
\* and loading stays false; any other submit dispatches one call.
C18_InvalidRejected ==
  [][HandleSubmit =>
       IF formData.amount \notin PositiveAmounts \/ Blank(formData.description)
         THEN /\ formError' # ""
              /\ formLoading' = FALSE
              /\ save' = NoSave
              /\ saveCount' = saveCount
         ELSE /\ saveCount' = saveCount + 1
              /\ save'.net = "inflight"
              /\ save'.data.amount.cents > 0
              /\ ~Blank(save'.data.description)]_vars

\* A negative amount was submitted and turned down.
C18_Witness ==
  /\ formData.amount = "-5"
  /\ formError = "Please enter a valid amount greater than 0"
  /\ ~formLoading
  /\ save = NoSave

C17_PercentageGuarded ==
  \A e \in donutData :
    /\ e.percentage.kind = "finite"
    /\ OrZero(summary.total_expense) = 0 => e.percentage.num = 0

\* The number a digit character stands for.
DigitValue(ch) == CHOOSE d \in 0..9 : DigitChars[d + 1] = ch

\* The amount in cents a currency text shows: its digits read in order, with
\* the sign in front.
RECURSIVE ReadDigits(_, _)
ReadDigits(text, acc) ==
  IF text = <<>> THEN acc
  ELSE IF Head(text) \in {"-", "$", ",", "."} THEN ReadDigits(Tail(text), acc)
  ELSE ReadDigits(Tail(text), acc * 10 + DigitValue(Head(text)))

ShownCents(text) ==
  IF text # <<>> /\ Head(text) = "-" THEN -ReadDigits(text, 0) ELSE ReadDigits(text, 0)

\* C20: whenever the dashboard shows a summary, the balance shown is the total
\* income shown minus the total expense shown.
C20_BalanceIsDifference ==
  DashboardShown =>
    ShownCents(BalanceCard) = ShownCents(IncomeCard) - ShownCents(ExpenseCard)

\* The dashboard shows $1,000.00 of income, $250.00 of expense and $750.00.
C20_Witness ==
  /\ DashboardShown
  /\ IncomeCard = <<"$", "1", ",", "0", "0", "0", ".", "0", "0">>
  /\ ExpenseCard = <<"$", "2", "5", "0", ".", "0", "0">>
  /\ BalanceCard = <<"$", "7", "5", "0", ".", "0", "0">>

\* C23: sendMessage with an empty or whitespace-only question changes nothing
\* of the session: no message, no request, isLoading and the list of quick
\* questions as they were.
C23_BlankChangesNothing ==
  [][\A q \in QuestionInputs, c \in BOOLEAN :
       (Blank(q) /\ SendMessage(q, c)) =>
         /\ messages' = messages
         /\ isLoading' = isLoading
         /\ requests' = requests
         /\ appendLog' = appendLog
         /\ quickQuestions' = quickQuestions]_vars

\* A session with a question pending and the list loaded while a request
\* can still be made: sendMessage(" ") called here leaves this very state.
C23_Witness ==
  /\ mounted
  /\ isLoading
  /\ Len(messages) > 0
  /\ Len(quickQuestions) > 0
  /\ RequestLeft
  /\ ENABLED SendMessage(<<" ">>, TRUE)

\* C29: every step that brings the form into create mode (Cancel, the end of
\* the editing mode after a successful update) and every successful create
\* leaves the fields at their defaults, so that a form in create mode the user
\* has not touched holds the defaults.
C29_CreateModeHoldsDefaults ==
  [][(/\ editingTransaction' = NoTransaction
      /\ \/ editingTransaction # NoTransaction
         \/ HandleSubmitResume /\ save.net = "ok")
       => formData' = FormDefaults]_vars

\* C30: the timer of a save ends the editing mode of the saved transaction
\* only: a transaction selected for editing after the save is still the one
\* being edited after the timer has fired.
C30_TimerEndsOnlySavedEdit ==
  [][OnSuccess =>
       (editingTransaction.id # Head(successTimers)
          => editingTransaction' = editingTransaction)]_vars

\* C28: once every list request of the page has completed, the list on
\* display is the response to the request issued last.
C28_LastIssuedWins ==
  (/\ \A f \in DOMAIN fetches : fetches[f].phase = "returned"
   /\ fetches[Len(fetches)].net = "ok")
    => transactions = fetches[Len(fetches)].data

\* The loadUser run of the mount effect has not finished.
InitialLoadPending ==
  \/ effectPending = "mount"
  \/ \E c \in DOMAIN authCalls :
       /\ authCalls[c].fn = "loadUser"
       /\ authCalls[c].initial
       /\ authCalls[c].phase = "awaiting"

\* C24: a protected route shows its page only with a token and a loaded user,
\* shows neither page nor redirect while the initial user load is pending,
\* and redirects once loading is over without authentication; logout leaves
\* token and user null and no protected page on display.
C24_ProtectedWhileInitialLoad ==
  /\ [](location \in ProtectedPaths =>
          /\ Rendered = "children" => token # NoToken /\ user
          /\ InitialLoadPending => Rendered = "loading"
          /\ ~authLoading /\ ~IsAuthenticated => Rendered = "navigate")
  /\ [][Logout => token' = NoToken /\ ~user' /\ Rendered' # "children"]_vars

\* C24, amended: as above, with "while the initial user load is pending" read
\* as "while loading is true".
C24_ProtectedWhileLoading ==
  /\ [](location \in ProtectedPaths =>
          /\ Rendered = "children" => token # NoToken /\ user
          /\ authLoading => Rendered = "loading"
          /\ ~authLoading /\ ~IsAuthenticated => Rendered = "navigate")
  /\ [][Logout => token' = NoToken /\ ~user' /\ Rendered' # "children"]_vars

C24_Witness ==
  /\ location \in ProtectedPaths
  /\ Rendered = "children"
  /\ \E c \in DOMAIN authCalls : authCalls[c].phase = "resolved"

\* C25: a response with status 401 removes token and user from localStorage
\* and sends the browser to /login, and every failure reaches the caller as a
\* rejection; any other outcome leaves localStorage and the location alone.
C25_InterceptorOn401 ==
  [][/\ \A c \in CallIds, status \in Statuses :
          ResponseInterceptor(c, status) =>
            /\ status = "401" =>
                 storageToken' = NoToken /\ ~storageUser' /\ unloading'
            /\ status # "401" =>
                 /\ storageToken' = storageToken
                 /\ storageUser' = storageUser
                 /\ unloading' = unloading
            /\ location' = location
            /\ status # "200" => authCalls'[c].settled = "rejected"
     /\ PageLoad => location' = "/login"]_vars

C25_Witness ==
  /\ location = "/login"
  /\ storageToken = NoToken
  /\ ~storageUser
  /\ logins > 0
  /\ authCalls = <<>>
  /\ effectPending = "mount"

\* C26: once every request has completed, a login or register call that was
\* rejected by its current-user request has left the session unauthenticated
\* and its token neither in localStorage nor in the provider.
C26_RejectedLoginLeavesNoToken ==
  \A c \in DOMAIN authCalls :
    (/\ authCalls[c].phase = "rejected"
     /\ authCalls[c].step = "me"
     /\ effectPending = "none"
     /\ \A d \in DOMAIN authCalls : authCalls[d].phase # "awaiting")
      => /\ ~IsAuthenticated
         /\ storageToken # authCalls[c].n + 1
         /\ token # authCalls[c].n + 1

\* C27: loading always comes to be false, and a loadUser run whose request
\* failed removes the token from localStorage and from the provider.
C27_LoadingEnds ==
  /\ authLoading ~> ~authLoading
  /\ [][\A c \in CallIds :
          (LoadUserResume(c) /\ authCalls[c].settled = "rejected")
            => storageToken' = NoToken /\ token' = NoToken]_vars

C27_Witness ==
  /\ ~authLoading
  /\ storageToken = NoToken
  /\ token = NoToken
  /\ logins = 0
  /\ \E c \in DOMAIN authCalls :
       /\ authCalls[c].fn = "loadUser"
       /\ authCalls[c].initial
       /\ authCalls[c].settled = "rejected"
       /\ authCalls[c].phase = "done"

\* C21: the series has exactly limit entries, of consecutive periods that end
\* at the current period, earliest first, and a period without transactions
\* is an entry with income 0 and expense 0.
C21_TrendsContinuous ==
  trendsData # NoTrends =>
    /\ Len(trendsData) = trendsInput.limit
    /\ \A k \in 1..(Len(trendsData) - 1) :
         trendsData[k + 1].period = trendsData[k].period + 1
    /\ trendsData[Len(trendsData)].period =
         PeriodOf(trendsInput.today, trendsInput.period)
    /\ \A k \in 1..Len(trendsData) :
         (\A t \in trendsInput.transactions :
            PeriodOf(t.date, trendsInput.period) # trendsData[k].period)
           => trendsData[k].income = 0 /\ trendsData[k].expense = 0

\* Monthly, limit 3, transactions in the middle month only.
C21_Witness ==
  /\ trendsData # NoTrends
  /\ trendsInput.period = "monthly"
  /\ trendsInput.limit = 3
  /\ trendsInput.transactions # {}
  /\ \A t \in trendsInput.transactions :
       PeriodOf(t.date, "monthly") = PeriodOf(trendsInput.today, "monthly") - 1
  /\ Len(trendsData) = 3
  /\ trendsData[1].income = 0 /\ trendsData[1].expense = 0
  /\ trendsData[2].income > 0 /\ trendsData[2].expense > 0
  /\ trendsData[3].income = 0 /\ trendsData[3].expense = 0

\* The totals and the balance open the text, and a category is dropped only
\* when no transaction is kept.
TotalsKept ==
  /\ Len(contextBundle.text) >= Len(TotalsText(contextInput.summary))
  /\ SubSeq(contextBundle.text, 1, Len(TotalsText(contextInput.summary)))
       = TotalsText(contextInput.summary)
  /\ Len(contextBundle.categories) < Cardinality(contextInput.categories)
       => contextBundle.sample = <<>>

====
